---- MODULE Spec2Model ----
(***************************************************************************)
(* A model of update_portfolio.py: the scan of the art tree, the two       *)
(* markup generators, the marker splicer and main.                         *)
(*                                                                         *)
(* Text is modelled as a sequence of tokens.  A token is a TLA+ string:    *)
(* one character of a file name or of a path, or one literal chunk of a    *)
(* template or of a document.  Each marker is one token: the four marker   *)
(* strings of the program share no prefix with a suffix of one another,    *)
(* so a text splits in one way only into marker occurrences and the rest,  *)
(* and str.find on the text is a search for the token.                     *)
(***************************************************************************)
EXTENDS Integers, Sequences, FiniteSets, TLC

VARIABLES
    cwd,              \* the working directory the program is started from
    art_exists,       \* whether <script dir>/art exists
    tree,             \* the nodes under art/, each a path relative to art/
    gallery_file,     \* pages/gallery.html: [exists, content]
    collections_file, \* pages/collections.html: [exists, content]
    pc,               \* the position of the operation under way
    all_images,       \* the last result of find_all_images
    collections,      \* the last result of find_collections (insertion order)
    gallery_html,     \* the last result of generate_gallery_html
    collections_html, \* the last result of generate_collections_html
    gallery_status,   \* what main's gallery block did in this run
    collections_status, \* what main's collections block did in this run
    new_content,      \* the argument of the last update_file_content call
    ret,              \* the result of the last update_file_content call
    before,           \* history: the gallery file as the last call or run found it
    before_other,     \* history: the collections file as the run found it
    first_had_markers,\* history: the first document held both markers
    prev_images,      \* history: the result of the scan before the last one
    calls,            \* the number of calls made so far
    runs              \* the number of runs of main started so far

vars == <<cwd, art_exists, tree, gallery_file, collections_file, pc,
          all_images, collections, gallery_html, collections_html,
          gallery_status, collections_status, new_content, ret, before,
          before_other, first_had_markers, prev_images, calls, runs>>

(***************************************************************************)
(* Bounds of the model.                                                    *)
(***************************************************************************)
MaxDocLen == 4      \* tokens in a document the splicer is first given
MaxCalls == 3       \* successive update_file_content calls on one document
MaxRuns == 2        \* successive runs of main
MaxNodes == 2       \* nodes of the art tree when main is first run

(***************************************************************************)
(* Characters.  str compares by code point; ord, lower and upper are       *)
(* tabulated for the characters the model's names use.                     *)
(***************************************************************************)
LowerLetters ==
    <<"a","b","c","d","e","f","g","h","i","j","k","l","m",
      "n","o","p","q","r","s","t","u","v","w","x","y","z">>
UpperLetters ==
    <<"A","B","C","D","E","F","G","H","I","J","K","L","M",
      "N","O","P","Q","R","S","T","U","V","W","X","Y","Z">>

IndexOf(c, s) == CHOOSE i \in 1..Len(s) : s[i] = c
IsIn(c, s) == \E i \in 1..Len(s) : s[i] = c
IsLower(c) == IsIn(c, LowerLetters)
IsUpper(c) == IsIn(c, UpperLetters)
IsCased(c) == IsLower(c) \/ IsUpper(c)

Ord(c) ==
    IF IsLower(c) THEN 96 + IndexOf(c, LowerLetters)
    ELSE IF IsUpper(c) THEN 64 + IndexOf(c, UpperLetters)
    ELSE CASE c = " " -> 32
           [] c = "-" -> 45
           [] c = "." -> 46
           [] c = "/" -> 47
           [] c = "1" -> 49
           [] c = "_" -> 95

LowerChar(c) == IF IsUpper(c) THEN LowerLetters[IndexOf(c, UpperLetters)] ELSE c
UpperChar(c) == IF IsLower(c) THEN UpperLetters[IndexOf(c, LowerLetters)] ELSE c

\* str.lower()
Lower(s) == [i \in 1..Len(s) |-> LowerChar(s[i])]

\* str.replace(old, new) for a one-character old and new
Replace(s, old, new) == [i \in 1..Len(s) |-> IF s[i] = old THEN new ELSE s[i]]

\* str.title(): a cased character is upper-cased after an uncased one (or at
\* the start) and lower-cased after a cased one
Title(s) ==
    [i \in 1..Len(s) |->
        IF i > 1 /\ IsCased(s[i - 1]) THEN LowerChar(s[i]) ELSE UpperChar(s[i])]

\* str < str: lexicographic by code point, a proper prefix first
RECURSIVE StrLess(_, _)
StrLess(s, t) ==
    IF t = <<>> THEN FALSE
    ELSE IF s = <<>> THEN TRUE
    ELSE IF s[1] # t[1] THEN Ord(s[1]) < Ord(t[1])
    ELSE StrLess(Tail(s), Tail(t))

(***************************************************************************)
(* Paths.  A path is the sequence of its components, a component the       *)
(* sequence of its characters.                                             *)
(***************************************************************************)
\* PurePath.__lt__: the lists of components compare, component by component
RECURSIVE PathLess(_, _)
PathLess(p, q) ==
    IF q = <<>> THEN FALSE
    ELSE IF p = <<>> THEN TRUE
    ELSE IF p[1] # q[1] THEN StrLess(p[1], q[1])
    ELSE PathLess(Tail(p), Tail(q))

\* os.sep.join(parts)
RECURSIVE JoinPath(_)
JoinPath(p) ==
    IF p = <<>> THEN <<>>
    ELSE IF Len(p) = 1 THEN p[1]
    ELSE p[1] \o <<"/">> \o JoinPath(Tail(p))

\* PurePath.suffix: from the last dot of the name, unless that dot is the
\* first or the last character of the name
Suffix(name) ==
    LET dots == {i \in 1..Len(name) : name[i] = "."}
    IN  IF dots = {} THEN <<>>
        ELSE LET i == CHOOSE d \in dots : \A e \in dots : e <= d
             IN  IF 1 < i /\ i < Len(name)
                 THEN SubSeq(name, i, Len(name)) ELSE <<>>

\* PurePath.stem: the name without its suffix
Stem(name) == SubSeq(name, 1, Len(name) - Len(Suffix(name)))

\* os.path.commonprefix of two component lists, as a length
RECURSIVE CommonLen(_, _)
CommonLen(p, q) ==
    IF p = <<>> \/ q = <<>> \/ p[1] # q[1] THEN 0
    ELSE 1 + CommonLen(Tail(p), Tail(q))

DotDot == <<".", ".">>

\* os.path.relpath(path, start) on absolute component lists
RelPath(path, start) ==
    LET i == CommonLen(path, start)
    IN  [k \in 1..(Len(start) - i) |-> DotDot] \o SubSeq(path, i + 1, Len(path))

(***************************************************************************)
(* Configuration (lines 14-24).                                            *)
(***************************************************************************)
ART_FOLDER == <<"a", "r", "t">>
PAGES == <<"p", "a", "g", "e", "s">>
\* Path(GALLERY_HTML).parent and Path(COLLECTIONS_HTML).parent: the relative
\* path "pages"
GALLERY_PARENT == <<PAGES>>
COLLECTIONS_PARENT == <<PAGES>>
SUPPORTED_EXTENSIONS ==
    { <<".", "p", "n", "g">>, <<".", "j", "p", "g">>, <<".", "j", "p", "e", "g">>,
      <<".", "g", "i", "f">>, <<".", "w", "e", "b", "p">>, <<".", "s", "v", "g">> }

GALLERY_START == <<"<!-- GALLERY_IMAGES_START -->">>
GALLERY_END == <<"<!-- GALLERY_IMAGES_END -->">>
COLLECTIONS_START == <<"<!-- COLLECTIONS_START -->">>
COLLECTIONS_END == <<"<!-- COLLECTIONS_END -->">>

(***************************************************************************)
(* The file system.  The script lies in /site; the working directory is    *)
(* one of three places.  The art tree is a set of nodes drawn from a fixed *)
(* universe, each node with every directory above it.                      *)
(***************************************************************************)
\* Path(__file__).parent, absolute
script_dir == << <<"s", "i", "t", "e">> >>
WorkingDirs == { script_dir, <<>>, << <<"h", "o", "m", "e">> >> }

\* os.path.abspath of a relative path
AbsPath(wd, p) == wd \o p

File(p) == [path |-> p, is_file |-> TRUE]
Dir(p) == [path |-> p, is_file |-> FALSE]

n_a == <<"a">>
n_e == <<"e">>
n_e_f == <<"e", "-", "f">>
n_c_jpg == <<"c", ".", "j", "p", "g">>
n_a_png == <<"a", ".", "p", "n", "g">>
n_b_PNG == <<"b", ".", "P", "N", "G">>
n_d_gif == <<"d", ".", "g", "i", "f">>
n_n_txt == <<"n", ".", "t", "x", "t">>
n_hill_1_jpg == <<"h", "i", "l", "l", "_", "1", ".", "j", "p", "g">>
n_dot_png == <<".", "p", "n", "g">>

Universe ==
    { File(<<n_a_png>>),              \* an image in the root
      File(<<n_dot_png>>),            \* a hidden file: a name with no suffix
      Dir(<<n_a>>),
      File(<<n_a, n_b_PNG>>),         \* an upper-case extension
      Dir(<<n_a, n_c_jpg>>),          \* a directory named like an image
      File(<<n_a, n_c_jpg, n_d_gif>>),\* an image two levels down
      Dir(<<n_e>>),
      File(<<n_e, n_n_txt>>),         \* no image
      Dir(<<n_e_f>>),
      File(<<n_e_f, n_hill_1_jpg>>) }

Parent(p) == SubSeq(p, 1, Len(p) - 1)

\* a set of nodes is a tree when every node's parent directory is in it
IsTree(nodes) ==
    \A n \in nodes : Len(n.path) > 1 => Dir(Parent(n.path)) \in nodes
Trees == {nodes \in SUBSET Universe : IsTree(nodes)}

IsPrefix(p, q) == Len(p) <= Len(q) /\ SubSeq(q, 1, Len(p)) = p

\* Sorted with the paths compared as strings: sorted(paths, key=str)
RECURSIVE SortedByString(_)
SortedByString(S) ==
    IF S = {} THEN <<>>
    ELSE LET m == CHOOSE x \in S :
                    \A y \in S : x = y \/ StrLess(JoinPath(x), JoinPath(y))
         IN  <<m>> \o SortedByString(S \ {m})

\* sorted(paths): ascending by PurePath.__lt__
RECURSIVE Sorted(_)
Sorted(S) ==
    IF S = {} THEN <<>>
    ELSE LET m == CHOOSE x \in S : \A y \in S : x = y \/ PathLess(x, y)
         IN  <<m>> \o Sorted(S \ {m})

\* folder.rglob('*'): every node below folder, as a full path
RGlob(folder, art_folder, nodes) ==
    {art_folder \o n.path : n \in {m \in nodes : /\ IsPrefix(folder, art_folder \o m.path)
                                                   /\ art_folder \o m.path # folder}}

\* folder.iterdir(): the nodes directly in folder
IterDir(art_folder, nodes) ==
    {art_folder \o n.path : n \in {m \in nodes : Len(m.path) = 1}}

\* Path.is_file() and Path.is_dir() of a full path under art_folder
is_file(file_path, art_folder, nodes) ==
    \E n \in nodes : art_folder \o n.path = file_path /\ n.is_file
is_dir(file_path, art_folder, nodes) ==
    \E n \in nodes : art_folder \o n.path = file_path /\ ~n.is_file

Name(file_path) == file_path[Len(file_path)]

\* IsSupportedImage with the suffix compared as it is written, not lowered
IsSupportedImageCaseSensitive(file_path, art_folder, nodes) ==
    /\ is_file(file_path, art_folder, nodes)
    /\ Suffix(Name(file_path)) \in SUPPORTED_EXTENSIONS

\* line 39 / line 71: the filter of the scan
IsSupportedImage(file_path, art_folder, nodes) ==
    /\ is_file(file_path, art_folder, nodes)
    /\ Lower(Suffix(Name(file_path))) \in SUPPORTED_EXTENSIONS

\* lines 41-43 / 73-74: relpath against the relative path "pages", which
\* os.path.relpath makes absolute against the working directory, then
\* os.sep replaced by "/"
RelativePath(file_path, parent, wd) ==
    Replace(JoinPath(RelPath(file_path, AbsPath(wd, parent))), "/", "/")

\* line 46 / line 77
AltText(file_path) == Title(Replace(Replace(Stem(Name(file_path)), "_", " "), "-", " "))

\* lines 38-48: the loop of find_all_images over the sorted paths
RECURSIVE ScanLoop(_, _, _, _, _)
ScanLoop(paths, parent, art_folder, nodes, wd) ==
    IF paths = <<>> THEN <<>>
    ELSE LET file_path == Head(paths)
             rest == ScanLoop(Tail(paths), parent, art_folder, nodes, wd)
         IN  IF IsSupportedImage(file_path, art_folder, nodes)
             THEN << <<RelativePath(file_path, parent, wd), AltText(file_path)>> >> \o rest
             ELSE rest

\* find_all_images(art_folder), lines 27-50
find_all_images(art_folder, exists, nodes, wd) ==
    IF ~exists THEN <<>>
    ELSE ScanLoop(Sorted(RGlob(art_folder, art_folder, nodes)),
                  GALLERY_PARENT, art_folder, nodes, wd)

\* HasKey with the key made as the subfolder is entered
HasKeyForEverySubfolder(subfolder, images, art_folder, nodes) ==
    is_dir(subfolder, art_folder, nodes)

\* lines 66-79: the defaultdict holds the key of a subfolder once the loop
\* over the subfolder has appended an image to it
HasKey(subfolder, images, art_folder, nodes) ==
    is_dir(subfolder, art_folder, nodes) /\ images # <<>>

\* lines 65-79: the loop of find_collections over the sorted entries of the
\* root; a key comes to exist with the first append to it
RECURSIVE GroupLoop(_, _, _, _)
GroupLoop(subfolders, art_folder, nodes, wd) ==
    IF subfolders = <<>> THEN <<>>
    ELSE LET subfolder == Head(subfolders)
             rest == GroupLoop(Tail(subfolders), art_folder, nodes, wd)
             images == ScanLoop(Sorted(RGlob(subfolder, art_folder, nodes)),
                                COLLECTIONS_PARENT, art_folder, nodes, wd)
         IN  IF HasKey(subfolder, images, art_folder, nodes)
             THEN << <<Name(subfolder), images>> >> \o rest
             ELSE rest

\* find_collections(art_folder), lines 53-81: the dict as the sequence of its
\* items in insertion order
find_collections(art_folder, exists, nodes, wd) ==
    IF ~exists THEN <<>>
    ELSE GroupLoop(Sorted(IterDir(art_folder, nodes)), art_folder, nodes, wd)

(***************************************************************************)
(* The markup generators.                                                  *)
(***************************************************************************)
NL == "\n"

\* '\n'.join(items)
RECURSIVE JoinLines(_)
JoinLines(items) ==
    IF items = <<>> THEN <<>>
    ELSE IF Len(items) = 1 THEN items[1]
    ELSE items[1] \o <<NL>> \o JoinLines(Tail(items))

ITEM_OPEN == "        <div class=\"gallery-grid-item\">\n            <img src=\""
ALT_ATTR == "\" alt=\""
ITEM_CLOSE == "\">\n        </div>"

\* lines 89-91
ItemHtml(image) == <<ITEM_OPEN>> \o image[1] \o <<ALT_ATTR>> \o image[2] \o <<ITEM_CLOSE>>

\* generate_gallery_html(images), lines 84-94
generate_gallery_html(images) ==
    JoinLines([i \in 1..Len(images) |-> ItemHtml(images[i])])

CARD_OPEN == "                        <div class=\"collection-card\">\n                            <div class=\"card-image\">\n                                <img src=\""
CARD_CLOSE == "\">\n                            </div>\n                        </div>"

\* lines 111-115
CardHtml(image) == <<CARD_OPEN>> \o image[1] \o <<ALT_ATTR>> \o image[2] \o <<CARD_CLOSE>>

\* lines 119-133; the glyphs of the two buttons are written [prev] and [next]
SECTION_COMMENT == "        <!-- Collection: "
SECTION_OPEN == " -->\n        <section class=\"collection-section\" data-collection=\""
SECTION_HEADER == "\">\n            <div class=\"collection-header\">\n                <h2>"
SECTION_PREV == "</h2>\n            </div>\n            <div class=\"collection-carousel-container\">\n                <button class=\"carousel-btn prev\" data-carousel=\""
SECTION_CAROUSEL == "\">[prev]</button>\n                <div class=\"collection-carousel\" id=\"carousel-"
SECTION_TRACK == "\">\n                    <div class=\"carousel-track\">\n"
SECTION_NEXT == "\n                    </div>\n                </div>\n                <button class=\"carousel-btn next\" data-carousel=\""
SECTION_CLOSE == "\">[next]</button>\n            </div>\n        </section>"

\* lines 106-133: one section, for a collection with images
SectionHtml(collection_name, images) ==
    LET display_name == Title(Replace(Replace(collection_name, "_", " "), "-", " "))
        cards_html == [i \in 1..Len(images) |-> CardHtml(images[i])]
    IN  <<SECTION_COMMENT>> \o collection_name
        \o <<SECTION_OPEN>> \o collection_name
        \o <<SECTION_HEADER>> \o display_name
        \o <<SECTION_PREV>> \o collection_name
        \o <<SECTION_CAROUSEL>> \o collection_name
        \o <<SECTION_TRACK>> \o JoinLines(cards_html)
        \o <<SECTION_NEXT>> \o collection_name
        \o <<SECTION_CLOSE>>

\* lines 101-135: the loop over the items, skipping an empty list
RECURSIVE Sections(_)
Sections(items) ==
    IF items = <<>> THEN <<>>
    ELSE IF items[1][2] = <<>> THEN Sections(Tail(items))
    ELSE <<SectionHtml(items[1][1], items[1][2])>> \o Sections(Tail(items))

\* generate_collections_html(collections), lines 97-137
generate_collections_html(items) == JoinLines(Sections(items))

(***************************************************************************)
(* The marker splicer.                                                     *)
(***************************************************************************)
INDENT == "        "

Missing == [exists |-> FALSE, content |-> <<>>]
Document(text) == [exists |-> TRUE, content |-> text]

\* marker in content
In(marker, content) ==
    \E i \in 1..(Len(content) - Len(marker) + 1) :
        SubSeq(content, i, i + Len(marker) - 1) = marker

\* content.find(marker): the 0-based index of the first occurrence, or -1
Find(content, marker) ==
    IF In(marker, content)
    THEN (CHOOSE i \in 1..(Len(content) - Len(marker) + 1) :
            /\ SubSeq(content, i, i + Len(marker) - 1) = marker
            /\ \A j \in 1..(i - 1) : SubSeq(content, j, j + Len(marker) - 1) # marker) - 1
    ELSE -1

\* the bound i of a slice of a text of n tokens: a negative bound counts from
\* the end, and every bound is clipped to 0..n
SliceBound(i, n) ==
    IF i < 0 THEN (IF n + i < 0 THEN 0 ELSE n + i)
    ELSE IF i > n THEN n ELSE i

\* content[:i] and content[i:]
SliceTo(content, i) == SubSeq(content, 1, SliceBound(i, Len(content)))
SliceFrom(content, i) == SubSeq(content, SliceBound(i, Len(content)) + 1, Len(content))

\* MarkersMissing with "and" written for "or"
MarkersMissingBoth(content, start_marker, end_marker) ==
    ~In(start_marker, content) /\ ~In(end_marker, content)

\* line 151: the test that refuses the update
MarkersMissing(content, start_marker, end_marker) ==
    ~In(start_marker, content) \/ ~In(end_marker, content)

\* NewFileContent with the tail taken from behind the end marker
NewFileContentPastEnd(content, new, start_marker, end_marker) ==
    LET start_idx == Find(content, start_marker) + Len(start_marker)
        end_idx == Find(content, end_marker) + Len(end_marker)
    IN  SliceTo(content, start_idx) \o <<NL>> \o new \o <<NL, INDENT>>
        \o SliceFrom(content, end_idx)

\* lines 159-166
NewFileContent(content, new, start_marker, end_marker) ==
    LET start_idx == Find(content, start_marker) + Len(start_marker)
        end_idx == Find(content, end_marker)
    IN  SliceTo(content, start_idx) \o <<NL>> \o new \o <<NL, INDENT>>
        \o SliceFrom(content, end_idx)

\* update_file_content, lines 140-172: the result and the file as it leaves it
update_file_content(file, new, start_marker, end_marker) ==
    IF ~file.exists
    THEN [ret |-> FALSE, file |-> file]
    ELSE IF MarkersMissing(file.content, start_marker, end_marker)
    THEN [ret |-> FALSE, file |-> file]
    ELSE [ret |-> TRUE,
          file |-> Document(NewFileContent(file.content, new, start_marker, end_marker))]

(***************************************************************************)
(* The splicer alone: update_file_content called again and again on one    *)
(* document, the gallery page, with generated markup.                      *)
(***************************************************************************)
art_folder == script_dir \o <<ART_FOLDER>>

DocTokens == {GALLERY_START[1], GALLERY_END[1], "text"}
Documents == UNION {[1..n -> DocTokens] : n \in 0..MaxDocLen}

\* the markup of three scans: of no image, of one and of two
NewContents ==
    { generate_gallery_html(find_all_images(art_folder, TRUE, t, script_dir)) :
        t \in { {}, {File(<<n_a_png>>)},
                {File(<<n_a_png>>), Dir(<<n_a>>), File(<<n_a, n_b_PNG>>)} } }

HasBothMarkers(file) ==
    file.exists /\ ~MarkersMissing(file.content, GALLERY_START, GALLERY_END)

SpliceInit ==
    /\ gallery_file \in {Missing} \cup {Document(d) : d \in Documents}
    /\ before = gallery_file
    /\ first_had_markers = HasBothMarkers(gallery_file)
    /\ cwd = script_dir
    /\ art_exists = FALSE
    /\ tree = {}
    /\ collections_file = Missing
    /\ before_other = Missing
    /\ pc = "splice"
    /\ all_images = <<>>
    /\ prev_images = <<>>
    /\ collections = <<>>
    /\ gallery_html = <<>>
    /\ collections_html = <<>>
    /\ gallery_status = "none"
    /\ collections_status = "none"
    /\ new_content = <<>>
    /\ ret = FALSE
    /\ calls = 0
    /\ runs = 0

\* one call update_file_content(gallery_file, new, GALLERY_START, GALLERY_END)
Update(new) ==
    /\ pc = "splice"
    /\ calls < MaxCalls
    /\ LET r == update_file_content(gallery_file, new, GALLERY_START, GALLERY_END)
       IN  /\ gallery_file' = r.file
           /\ ret' = r.ret
    /\ new_content' = new
    /\ before' = gallery_file
    /\ calls' = calls + 1
    /\ UNCHANGED <<cwd, art_exists, tree, collections_file, pc, all_images,
                   collections, gallery_html, collections_html, gallery_status,
                   collections_status, before_other, first_had_markers,
                   prev_images, runs>>

SpliceNext == \E new \in NewContents : Update(new)

SpecSplice == SpliceInit /\ [][SpliceNext]_vars

(***************************************************************************)
(* The scan alone: find_all_images twice, generate_gallery_html,           *)
(* find_collections and generate_collections_html on one art tree.         *)
(***************************************************************************)
ScanInit ==
    /\ cwd \in WorkingDirs
    /\ art_exists \in BOOLEAN
    /\ tree \in Trees
    /\ ~art_exists => tree = {}
    /\ gallery_file = Missing
    /\ collections_file = Missing
    /\ before = Missing
    /\ before_other = Missing
    /\ first_had_markers = FALSE
    /\ pc = "scan"
    /\ all_images = <<>>
    /\ prev_images = <<>>
    /\ collections = <<>>
    /\ gallery_html = <<>>
    /\ collections_html = <<>>
    /\ gallery_status = "none"
    /\ collections_status = "none"
    /\ new_content = <<>>
    /\ ret = FALSE
    /\ calls = 0
    /\ runs = 0

ScanFrame ==
    UNCHANGED <<cwd, art_exists, tree, gallery_file, collections_file,
                gallery_status, collections_status, new_content, ret, before,
                before_other, first_had_markers, runs>>

\* all_images = find_all_images(art_folder), the first and the second time
Scan ==
    /\ pc \in {"scan", "scanned"}
    /\ all_images' = find_all_images(art_folder, art_exists, tree, cwd)
    /\ prev_images' = all_images
    /\ calls' = calls + 1
    /\ pc' = IF pc = "scan" THEN "scanned" ELSE "rescanned"
    /\ UNCHANGED <<collections, gallery_html, collections_html>>
    /\ ScanFrame

\* gallery_html = generate_gallery_html(all_images)
RenderGallery ==
    /\ pc = "rescanned"
    /\ gallery_html' = generate_gallery_html(all_images)
    /\ pc' = "rendered"
    /\ UNCHANGED <<all_images, prev_images, collections, collections_html, calls>>
    /\ ScanFrame

\* collections = find_collections(art_folder)
Group ==
    /\ pc = "rendered"
    /\ collections' = find_collections(art_folder, art_exists, tree, cwd)
    /\ pc' = "grouped"
    /\ UNCHANGED <<all_images, prev_images, gallery_html, collections_html, calls>>
    /\ ScanFrame

\* collections_html = generate_collections_html(collections)
RenderCollections ==
    /\ pc = "grouped"
    /\ collections_html' = generate_collections_html(collections)
    /\ pc' = "done"
    /\ UNCHANGED <<all_images, prev_images, collections, gallery_html, calls>>
    /\ ScanFrame

ScanNext == Scan \/ RenderGallery \/ Group \/ RenderCollections

SpecScan == ScanInit /\ [][ScanNext]_vars

(***************************************************************************)
(* main, run again and again; between two runs the art tree may change.    *)
(***************************************************************************)
GalleryDocuments ==
    { Missing,
      Document(<<"head">> \o GALLERY_START \o <<"old">> \o GALLERY_END \o <<"foot">>),
      Document(<<"head">> \o GALLERY_START \o <<"foot">>),
      Document(GALLERY_END \o <<"mid">> \o GALLERY_START) }

CollectionsDocuments ==
    { Missing,
      Document(<<"head">> \o COLLECTIONS_START \o <<"old">> \o COLLECTIONS_END \o <<"foot">>),
      Document(<<"head">> \o COLLECTIONS_END \o <<"foot">>),
      Document(COLLECTIONS_END \o <<"mid">> \o COLLECTIONS_START) }

Init ==
    /\ cwd \in WorkingDirs
    /\ art_exists \in BOOLEAN
    /\ tree \in {t \in Trees : Cardinality(t) <= MaxNodes}
    /\ ~art_exists => tree = {}
    /\ gallery_file \in GalleryDocuments
    /\ collections_file \in CollectionsDocuments
    /\ before = gallery_file
    /\ before_other = collections_file
    /\ first_had_markers = HasBothMarkers(gallery_file)
    /\ pc = "gallery"
    /\ all_images = <<>>
    /\ prev_images = <<>>
    /\ collections = <<>>
    /\ gallery_html = <<>>
    /\ collections_html = <<>>
    /\ gallery_status = "none"
    /\ collections_status = "none"
    /\ new_content = <<>>
    /\ ret = FALSE
    /\ calls = 0
    /\ runs = 1

\* GalleryFound with the gallery spliced whatever the scan found
GalleryFoundAlways(images) == TRUE

\* line 192: whether main goes on to generate and splice the gallery
GalleryFound(images) == images # <<>>

\* line 209: whether main goes on to generate and splice the collections
CollectionsFound(items) == items # <<>>

\* AfterGallery with main returning when the gallery update fails
AfterGalleryStopOnFailure(status) ==
    IF status = "failed" THEN "done" ELSE "collections"

\* lines 200-207: where main goes on after its gallery block, whatever the
\* block did
AfterGallery(status) == "collections"

\* lines 190-203: the gallery block of main
MainGallery ==
    /\ pc = "gallery"
    /\ LET images == find_all_images(art_folder, art_exists, tree, cwd)
           html == generate_gallery_html(images)
           r == update_file_content(gallery_file, html, GALLERY_START, GALLERY_END)
           status == IF ~GalleryFound(images) THEN "skipped"
                     ELSE IF r.ret THEN "updated" ELSE "failed"
       IN  /\ all_images' = images
           /\ prev_images' = all_images
           /\ gallery_status' = status
           /\ pc' = AfterGallery(status)
           /\ IF GalleryFound(images)
              THEN /\ gallery_html' = html
                   /\ gallery_file' = r.file
                   /\ new_content' = html
                   /\ ret' = r.ret
                   /\ calls' = calls + 1
              ELSE UNCHANGED <<gallery_html, gallery_file, new_content, ret, calls>>
    /\ UNCHANGED <<cwd, art_exists, tree, collections_file, collections,
                   collections_html, collections_status, before, before_other,
                   first_had_markers, runs>>

\* lines 207-224: the collections block of main
MainCollections ==
    /\ pc = "collections"
    /\ LET items == find_collections(art_folder, art_exists, tree, cwd)
           html == generate_collections_html(items)
           r == update_file_content(collections_file, html,
                                    COLLECTIONS_START, COLLECTIONS_END)
       IN  /\ collections' = items
           /\ IF CollectionsFound(items)
              THEN /\ collections_html' = html
                   /\ collections_file' = r.file
                   /\ new_content' = html
                   /\ ret' = r.ret
                   /\ calls' = calls + 1
                   /\ collections_status' = IF r.ret THEN "updated" ELSE "failed"
              ELSE /\ collections_status' = "skipped"
                   /\ UNCHANGED <<collections_html, collections_file,
                                  new_content, ret, calls>>
    /\ pc' = "done"
    /\ UNCHANGED <<cwd, art_exists, tree, gallery_file, all_images, prev_images,
                   gallery_html, gallery_status, before, before_other,
                   first_had_markers, runs>>

\* the program is started again, on the file system as it is by then
Start ==
    /\ pc = "done"
    /\ runs < MaxRuns
    /\ pc' = "gallery"
    /\ runs' = runs + 1
    /\ gallery_status' = "none"
    /\ collections_status' = "none"
    /\ before' = gallery_file
    /\ before_other' = collections_file
    /\ UNCHANGED <<cwd, gallery_file, collections_file, all_images, prev_images,
                   collections, gallery_html, collections_html, new_content,
                   ret, first_had_markers, calls>>

\* the user runs the program again as it is
Rerun == Start /\ UNCHANGED <<art_exists, tree>>

\* the user adds a file or a directory to the art tree, and runs the program
AddNode(n) ==
    /\ art_exists
    /\ n \notin tree
    /\ IsTree(tree \cup {n})
    /\ tree' = tree \cup {n}
    /\ UNCHANGED art_exists
    /\ Start

\* the user removes a file or an empty directory, and runs the program
RemoveNode(n) ==
    /\ n \in tree
    /\ IsTree(tree \ {n})
    /\ tree' = tree \ {n}
    /\ UNCHANGED art_exists
    /\ Start

\* the user removes the art folder, and runs the program
RemoveArt ==
    /\ art_exists
    /\ art_exists' = FALSE
    /\ tree' = {}
    /\ Start

\* the user creates the art folder, and runs the program
CreateArt ==
    /\ ~art_exists
    /\ art_exists' = TRUE
    /\ tree' = {}
    /\ Start

Next ==
    \/ MainGallery
    \/ MainCollections
    \/ Rerun
    \/ \E n \in Universe : AddNode(n)
    \/ \E n \in Universe : RemoveNode(n)
    \/ RemoveArt
    \/ CreateArt

Spec == Init /\ [][Next]_vars

(***************************************************************************)
(* What the claims speak of, stated apart from the operators above.        *)
(***************************************************************************)
\* the token tok occurs in text
Occurs(tok, text) == \E i \in 1..Len(text) : text[i] = tok

\* the position of the first tok in text, which holds it
FirstAt(tok, text) ==
    CHOOSE i \in 1..Len(text) : text[i] = tok /\ \A j \in 1..(i - 1) : text[j] # tok

HoldsBoth(file, start_marker, end_marker) ==
    file.exists /\ Occurs(start_marker[1], file.content)
                /\ Occurs(end_marker[1], file.content)

\* text is head, then any span, then tail
Frames(text, head, tail) ==
    /\ Len(head) + Len(tail) <= Len(text)
    /\ SubSeq(text, 1, Len(head)) = head
    /\ SubSeq(text, Len(text) - Len(tail) + 1, Len(text)) = tail

\* the text of a document up to and with its first start marker, and from its
\* first end marker on
HeadOf(text, start_marker) == SubSeq(text, 1, FirstAt(start_marker[1], text))
TailOf(text, end_marker) == SubSeq(text, FirstAt(end_marker[1], text), Len(text))

\* behind the first start marker of the document stand a newline, the
\* markup, a newline, the indentation and the end marker
RegionIs(file, start_marker, end_marker, markup) ==
    LET at == FirstAt(start_marker[1], file.content)
        region == <<NL>> \o markup \o <<NL, INDENT>> \o end_marker
    IN  /\ at + Len(region) <= Len(file.content)
        /\ SubSeq(file.content, at + 1, at + Len(region)) = region

\* the document is what it was but for the markup between the markers
SplicedFrom(file, was, start_marker, end_marker, markup) ==
    /\ file.exists
    /\ file.content = HeadOf(was.content, start_marker) \o <<NL>> \o markup
                      \o <<NL, INDENT>> \o TailOf(was.content, end_marker)

(***************************************************************************)
(* The claims about update_file_content, under SpecSplice.                 *)
(***************************************************************************)
\* C1: a successful update changes only the span strictly between the first
\* start marker and the first end marker: the document was head, span, tail,
\* and is head, new span, tail, wherever the markers stand.
C1_OnlyRegionChanged ==
    (calls > 0 /\ ret) =>
        LET head == HeadOf(before.content, GALLERY_START)
            tail == TailOf(before.content, GALLERY_END)
        IN  /\ Frames(before.content, head, tail)
            /\ Frames(gallery_file.content, head, tail)

\* C2: a second successful update with the content of the one before it
\* leaves the file as the first left it.
C2_Idempotent ==
    [][(calls > 0 /\ calls' = calls + 1 /\ ret /\ ret' /\ new_content' = new_content)
          => gallery_file' = gallery_file]_vars

\* C3: the update returns False, and leaves the file as it was (not created,
\* not changed), exactly when the file does not exist or lacks a marker;
\* otherwise it returns True.
C3_FailsExactlyWhenAbsent ==
    calls > 0 =>
        LET absent == ~HoldsBoth(before, GALLERY_START, GALLERY_END)
        IN  /\ ret = ~absent
            /\ absent => gallery_file = before

\* C3's case: an update refused for a document that holds the start marker
\* and lacks the end marker
C3_RefusedForMissingEnd ==
    /\ calls > 0
    /\ ~ret
    /\ before.exists
    /\ Occurs(GALLERY_START[1], before.content)
    /\ ~Occurs(GALLERY_END[1], before.content)
    /\ gallery_file = before

\* C10: a document that holds both markers holds them after every update,
\* and every update of it succeeds.
C10_MarkersKept ==
    first_had_markers =>
        /\ HoldsBoth(gallery_file, GALLERY_START, GALLERY_END)
        /\ calls > 0 => ret

\* C10's case: the third update in a row has succeeded on a document whose end
\* marker stands before its start marker
C10_ThirdUpdateSucceeded ==
    /\ first_had_markers
    /\ calls >= 3
    /\ ret
    /\ new_content # <<>>
    /\ FirstAt(GALLERY_END[1], gallery_file.content)
         < FirstAt(GALLERY_START[1], gallery_file.content)

(***************************************************************************)
(* The claims about the scan, under SpecScan.                              *)
(***************************************************************************)
ImageExtensions ==
    { <<"p", "n", "g">>, <<"j", "p", "g">>, <<"j", "p", "e", "g">>,
      <<"g", "i", "f">>, <<"w", "e", "b", "p">>, <<"s", "v", "g">> }

\* the name is a stem, a dot and an extension of the set, in any case
HasImageExtension(name) ==
    \E k \in 2..(Len(name) - 1) :
        /\ name[k] = "."
        /\ Lower(SubSeq(name, k + 1, Len(name))) \in ImageExtensions

\* the regular files of the tree with an image extension, at any depth
Images == {n \in tree : n.is_file /\ HasImageExtension(n.path[Len(n.path)])}

\* the images below the immediate subdirectory d of the root
ImagesBelow(d) == {n \in Images : Len(n.path) >= 2 /\ n.path[1] = d}

EndsWith(text, tail) ==
    Len(tail) <= Len(text) /\ SubSeq(text, Len(text) - Len(tail) + 1, Len(text)) = tail

\* the entry is the one of node n: its locator ends with /art/ and the path
\* of n below art
IsEntryOf(entry, n) == EndsWith(entry[1], <<"/">> \o JoinPath(<<ART_FOLDER>> \o n.path))

\* the list holds one entry for each node of the set, and none else
ListsExactly(list, nodes) ==
    /\ Len(list) = Cardinality(nodes)
    /\ \A n \in nodes : Cardinality({i \in 1..Len(list) : IsEntryOf(list[i], n)}) = 1
    /\ \A i \in 1..Len(list) : \E n \in nodes : IsEntryOf(list[i], n)

\* the positions of the token tok in text
PositionsOf(tok, text) == {i \in 1..Len(text) : text[i] = tok}

\* the markup holds one block opened by the token open for each entry of
\* the list, in the order of the list
OneBlockEach(markup, open, list) ==
    LET opens == PositionsOf(open, markup)
    IN  /\ Cardinality(opens) = Len(list)
        /\ \A k \in 1..Len(list) :
              LET at == CHOOSE i \in opens : Cardinality({j \in opens : j <= i}) = k
              IN  SubSeq(markup, at + 1, at + Len(list[k][1]) + 1)
                    = list[k][1] \o <<ALT_ATTR>>

Scanned == pc \in {"scanned", "rescanned", "rendered", "grouped", "done"}
Rendered == pc \in {"rendered", "grouped", "done"}
Grouped == pc \in {"grouped", "done"}

\* C6: find_all_images returns one entry for each regular file under the
\* root with an image extension (in any case) and none for anything else;
\* generate_gallery_html emits one block for each entry, in the same order;
\* a missing root gives the empty sequence.
C6_OneEntryPerImage ==
    /\ Scanned => ListsExactly(all_images, Images)
    /\ (Scanned /\ ~art_exists) => all_images = <<>>
    /\ Rendered => OneBlockEach(gallery_html, ITEM_OPEN, all_images)

\* C6's case: a tree with an upper-case extension, a directory named like an
\* image with an image in it, a hidden file and a file that is no image
C6_MixedTreeRendered ==
    /\ Rendered
    /\ {File(<<n_a, n_b_PNG>>), Dir(<<n_a, n_c_jpg>>), File(<<n_a, n_c_jpg, n_d_gif>>),
        File(<<n_dot_png>>), File(<<n_e, n_n_txt>>)} \subseteq tree
    /\ Len(all_images) = 2

\* the keys of the mapping
Keys == {collections[i][1] : i \in 1..Len(collections)}

\* C7: the keys of find_collections are the immediate subdirectories of the
\* root with at least one image at any depth, each key once, and the list of
\* a key holds the images below that subdirectory; so an image in the root
\* is in no collection, a subdirectory without images has no key and no
\* section, and every image below a subdirectory is in one collection.
C7_KeysAreSubfoldersWithImages ==
    /\ Grouped =>
          /\ Keys = {n.path[1] : n \in {m \in Images : Len(m.path) >= 2}}
          /\ Len(collections) = Cardinality(Keys)
          /\ \A i \in 1..Len(collections) :
                ListsExactly(collections[i][2], ImagesBelow(collections[i][1]))
    /\ pc = "done" =>
          Cardinality(PositionsOf(SECTION_COMMENT, collections_html)) = Cardinality(Keys)

\* C7's case: an image in the root, a subdirectory without images and two
\* subdirectories with images
C7_RootImageAndEmptySubfolder ==
    /\ pc = "done"
    /\ {File(<<n_a_png>>), File(<<n_e, n_n_txt>>), File(<<n_a, n_c_jpg, n_d_gif>>),
        File(<<n_e_f, n_hill_1_jpg>>)} \subseteq tree
    /\ Len(collections) = 2

\* text.split("/")
RECURSIVE Split(_)
Split(text) ==
    IF ~Occurs("/", text) THEN <<text>>
    ELSE LET at == FirstAt("/", text)
         IN  <<SubSeq(text, 1, at - 1)>> \o Split(SubSeq(text, at + 1, Len(text)))

\* the locators of a list of entries; they differ from the full paths by one
\* prefix, so they stand in the order of the full paths
Locators(list) == [i \in 1..Len(list) |-> list[i][1]]

AscendingAsStrings(texts) ==
    \A i, j \in 1..Len(texts) : i < j => StrLess(texts[i], texts[j])

AscendingByComponents(texts) ==
    \A i, j \in 1..Len(texts) : i < j => PathLess(Split(texts[i]), Split(texts[j]))

\* C9, as claimed: the entries of a scan stand in ascending lexicographic
\* order of their full path strings.
C9_AscendingPathStrings ==
    /\ Scanned => AscendingAsStrings(Locators(all_images))
    /\ Grouped => \A i \in 1..Len(collections) :
                      AscendingAsStrings(Locators(collections[i][2]))

\* C9, amended: two scans of one tree return the same sequence; the entries
\* of a scan stand in ascending order of their paths compared component by
\* component; find_collections takes the subdirectories in ascending order
\* of their names and lists the files of each in the component order.
C9_AscendingByComponents ==
    /\ calls >= 2 => all_images = prev_images
    /\ Scanned => AscendingByComponents(Locators(all_images))
    /\ Grouped =>
          /\ AscendingAsStrings([i \in 1..Len(collections) |-> collections[i][1]])
          /\ \A i \in 1..Len(collections) :
                AscendingByComponents(Locators(collections[i][2]))

\* C9's case: a.png beside the directory a, whose image the scan lists first
C9_FileBesideDirectory ==
    /\ pc = "done"
    /\ {File(<<n_a_png>>), File(<<n_a, n_b_PNG>>), File(<<n_e_f, n_hill_1_jpg>>)}
         \subseteq tree
    /\ Len(all_images) = 3
    /\ IsEntryOf(all_images[1], File(<<n_a, n_b_PNG>>))
    /\ IsEntryOf(all_images[2], File(<<n_a_png>>))

(***************************************************************************)
(* The claims about main, under Spec.                                      *)
(***************************************************************************)
\* what a block of main must have done with its document: nothing when the
\* scan found nothing or the document cannot be spliced, the splice otherwise
BlockOutcome(status, file, was, found, start_marker, end_marker, markup) ==
    IF ~found
    THEN status = "skipped" /\ file = was
    ELSE IF HoldsBoth(was, start_marker, end_marker)
    THEN status = "updated" /\ SplicedFrom(file, was, start_marker, end_marker, markup)
    ELSE status = "failed" /\ file = was

\* C4: the two blocks of main are independent: the collections block runs
\* whatever the gallery block did, the gallery block leaves the collections
\* document as it found it and the collections block the gallery document,
\* and what becomes of each document is decided by the art tree and by that
\* document alone.
C4_PipelinesIndependent ==
    /\ pc = "collections" =>
          /\ collections_file = before_other
          /\ BlockOutcome(gallery_status, gallery_file, before, all_images # <<>>,
                          GALLERY_START, GALLERY_END, gallery_html)
    /\ pc = "done" =>
          /\ BlockOutcome(gallery_status, gallery_file, before, all_images # <<>>,
                          GALLERY_START, GALLERY_END, gallery_html)
          /\ BlockOutcome(collections_status, collections_file, before_other,
                          collections # <<>>, COLLECTIONS_START, COLLECTIONS_END,
                          collections_html)

\* C4's case: the gallery update has failed and the collections update has
\* succeeded
C4_GalleryFailedCollectionsUpdated ==
    /\ pc = "done"
    /\ gallery_status = "failed"
    /\ collections_status = "updated"
    /\ collections_file # before_other

\* C5, as claimed: after every run that found both documents with their
\* markers, each marker region holds the markup of the scan of that run, the
\* empty markup when the scan found nothing.
C5_RegionsAlwaysRegenerated ==
    (/\ pc = "done"
     /\ HoldsBoth(before, GALLERY_START, GALLERY_END)
     /\ HoldsBoth(before_other, COLLECTIONS_START, COLLECTIONS_END)) =>
        /\ RegionIs(gallery_file, GALLERY_START, GALLERY_END,
                    generate_gallery_html(all_images))
        /\ RegionIs(collections_file, COLLECTIONS_START, COLLECTIONS_END,
                    generate_collections_html(collections))

\* C5, amended: every run of main runs both blocks; a block splices its
\* document exactly when its scan found something, and then, the document
\* holding both markers, the markup of that scan stands behind the first
\* start marker; when the scan found nothing the document is left as it was.
C5_RegeneratedWhenFound ==
    pc = "done" =>
        /\ gallery_status # "none" /\ collections_status # "none"
        /\ (gallery_status = "skipped") = (all_images = <<>>)
        /\ (collections_status = "skipped") = (collections = <<>>)
        /\ all_images = <<>> => gallery_file = before
        /\ collections = <<>> => collections_file = before_other
        /\ (all_images # <<>> /\ HoldsBoth(before, GALLERY_START, GALLERY_END)) =>
              /\ gallery_status = "updated"
              /\ RegionIs(gallery_file, GALLERY_START, GALLERY_END,
                          generate_gallery_html(all_images))
        /\ (collections # <<>>
              /\ HoldsBoth(before_other, COLLECTIONS_START, COLLECTIONS_END)) =>
              /\ collections_status = "updated"
              /\ RegionIs(collections_file, COLLECTIONS_START, COLLECTIONS_END,
                          generate_collections_html(collections))

\* C5's case: the second run finds no image, and both documents keep the
\* markup of the first run
C5_MarkupOfEarlierRunLeft ==
    /\ pc = "done"
    /\ runs = 2
    /\ gallery_status = "skipped"
    /\ collections_status = "skipped"
    /\ Occurs(ITEM_OPEN, gallery_file.content)
    /\ Occurs(SECTION_COMMENT, collections_file.content)

\* the locator of node n relative to the directory of the documents main
\* updates, <script dir>/pages
LocatorFromPages(n) ==
    JoinPath(RelPath(art_folder \o n.path, script_dir \o <<PAGES>>))

\* C8: the locator of every image found is the path of the image relative to
\* <script dir>/pages, from whatever working directory the program is started.
C8_LocatorsRelativeToPages ==
    /\ \A i \in 1..Len(all_images) :
          \E n \in Universe : all_images[i][1] = LocatorFromPages(n)
    /\ \A i \in 1..Len(collections) : \A k \in 1..Len(collections[i][2]) :
          \E n \in Universe : collections[i][2][k][1] = LocatorFromPages(n)

====
